---------------------------- MODULE Spec2Model ----------------------------
(***************************************************************************)
(* A model of the ai-parliament simulation: the response sanitizer and the *)
(* vote normalisation of simulation.py (specification SpecSan), the        *)
(* Translator of translations.py (specification SpecTr) and the pipeline   *)
(* as driven by the two entry points, the Streamlit script of app.py and   *)
(* the command-line main of simulation.py (specification Spec).            *)
(*                                                                         *)
(* Texts are sequences of one-character strings, so that str.strip,        *)
(* str.startswith, slicing and str.join are computed character by          *)
(* character as Python computes them.                                      *)
(***************************************************************************)
EXTENDS Naturals, Sequences, FiniteSets, TLC

VARIABLES
    \* ---- SpecSan: one text through clean_json_data / query_openai / agent_vote
    payload,              \* the text the service wrapped (or sent bare)
    fenced,               \* whether raw is payload inside a json code fence
    raw,                  \* response.choices[0].message.content
    cleaned,              \* clean_json_data(raw)
    recleaned,            \* clean_json_data(clean_json_data(raw))
    response,             \* what query_openai returns for raw
    vote,                 \* the vote agent_vote records for response
    spc,                  \* position: "start", "cleaned", "recleaned", "queried", "voted"
    \* ---- SpecTr: a Translator and one lookup
    locales,              \* the locales directory: language -> table or NoFile
    tr_language,          \* Translator.language
    translations,         \* Translator.translations
    tr_key,               \* the key of the last get, as its dot-separated segments
    tr_value,             \* what the last get returned
    tpc,                  \* position: "new", "ready", "raised", "looked_up"
    \* ---- Spec: the pipeline under main of app.py and main of simulation.py
    entry,                \* "app" (streamlit run app.py) or "cli" (python simulation.py)
    api_key,              \* openai.api_key
    api_key_set,          \* st.session_state.api_key_set
    language,             \* st.session_state.language
    has_issue,            \* hasattr(st.session_state, "issue")
    simulation_complete,  \* st.session_state.simulation_complete
    parties,              \* st.session_state.parties / main parties
    agents,               \* st.session_state.agents / main agents
    question,             \* st.session_state.question / main question
    votes,                \* st.session_state.votes / main votes
    opinions,             \* the local list get_opinions returns
    joined_opinions,      \* the joined text in the prompt of the call in flight
    pc,                   \* position of the script run / process
    rendered,             \* what the current script run (process) has put on screen
    failed,               \* a generation call failed since the issue was last submitted
    yes_count,            \* the tally as last computed for display
    no_count,
    result                \* "PASSED" / "FAILED" as displayed, "" when not displayed

sanVars == <<payload, fenced, raw, cleaned, recleaned, response, vote, spc>>
trVars == <<locales, tr_language, translations, tr_key, tr_value, tpc>>
appVars == <<entry, api_key, api_key_set, language, has_issue, simulation_complete,
             parties, agents, question, votes, opinions, joined_opinions, pc,
             rendered, failed, yes_count, no_count, result>>
vars == <<sanVars, trVars, appVars>>

---------------------------------------------------------------------------
(* Bounds *)

\* The longest text of SpecSan, counted in tokens (see Tokens).
MaxTokens == 3

\* The longest agent list the service returns in Stage B.
MaxAgents == 2

---------------------------------------------------------------------------
(* Texts *)

Yes == <<"Y", "e", "s">>
No == <<"N", "o">>
JsonMarker == <<"j", "s", "o", "n">>
\* The backtick character (a TLA+ string cannot hold one, so it gets a name).
Backtick == "<backtick>"
Fence == <<Backtick, Backtick, Backtick>>
Newline == <<"\n">>
Empty == <<>>

\* The characters str.strip() removes (the ones of the alphabet of the model).
Whitespace == {" ", "\n", "\t"}

\* The characters of the argument of json_data.strip in clean_json_data.
StripChars == {Backtick, " ", "\n"}

RECURSIVE LStrip(_, _)
LStrip(s, chars) ==
    IF s # <<>> /\ Head(s) \in chars THEN LStrip(Tail(s), chars) ELSE s

RECURSIVE RStrip(_, _)
RStrip(s, chars) ==
    IF s # <<>> /\ s[Len(s)] \in chars
    THEN RStrip(SubSeq(s, 1, Len(s) - 1), chars)
    ELSE s

\* str.strip(chars)
Strip(s, chars) == RStrip(LStrip(s, chars), chars)

\* str.startswith(prefix)
StartsWith(s, prefix) ==
    Len(s) >= Len(prefix) /\ SubSeq(s, 1, Len(prefix)) = prefix

RECURSIVE Flatten(_)
Flatten(ss) == IF ss = <<>> THEN <<>> ELSE Head(ss) \o Flatten(Tail(ss))

RECURSIVE Join(_, _)
\* sep.join(ss)
Join(sep, ss) ==
    IF ss = <<>> THEN <<>>
    ELSE IF Len(ss) = 1 THEN ss[1]
    ELSE ss[1] \o sep \o Join(sep, Tail(ss))

---------------------------------------------------------------------------
(* simulation.py: the sanitizer, the client and the vote *)

clean_json_data(json_data) ==
    LET cleaned_json_data == Strip(json_data, StripChars)
    IN  IF StartsWith(cleaned_json_data, JsonMarker)
        THEN SubSeq(cleaned_json_data, 5, Len(cleaned_json_data))
        ELSE cleaned_json_data

\* query_openai, from the content the service sent to the returned text.
query_openai(content) == clean_json_data(Strip(content, Whitespace))

recorded_vote_no_fallback(resp) == Strip(resp, Whitespace)

\* The vote agent_vote records for one response of query_openai.
recorded_vote(resp) ==
    LET v == Strip(resp, Whitespace)
    IN  IF v \notin {Yes, No} THEN No ELSE v

---------------------------------------------------------------------------
(* SpecSan: every text of at most MaxTokens tokens, bare or in a fence *)

Tokens ==
    { <<Backtick>>, Fence, <<" ">>, <<"\n">>, <<"\t">>, JsonMarker, <<"j", "s">>,
      Yes, No, <<"Y", "E", "S">>, <<"m", "a", "y", "b", "e">>,
      <<"[", "1", ",", "2", "]">> }

TokenSeqs == UNION { [1..n -> Tokens] : n \in 0..MaxTokens }

Texts == { Flatten(ts) : ts \in TokenSeqs }

\* The text with an opening json fence, a newline, p, a newline and a closing fence.
InFence(p) == Fence \o JsonMarker \o Newline \o p \o Newline \o Fence

SanIdle ==
    /\ payload = Empty /\ fenced = FALSE /\ raw = Empty /\ cleaned = Empty
    /\ recleaned = Empty /\ response = Empty /\ vote = Empty /\ spc = "off"

SanInit ==
    /\ payload \in Texts
    /\ fenced \in BOOLEAN
    /\ raw = IF fenced THEN InFence(payload) ELSE payload
    /\ cleaned = Empty /\ recleaned = Empty /\ response = Empty /\ vote = Empty
    /\ spc = "start"

Clean ==
    /\ spc = "start"
    /\ cleaned' = clean_json_data(raw)
    /\ spc' = "cleaned"
    /\ UNCHANGED <<payload, fenced, raw, recleaned, response, vote>>
    /\ UNCHANGED <<trVars, appVars>>

CleanAgain ==
    /\ spc = "cleaned"
    /\ recleaned' = clean_json_data(cleaned)
    /\ spc' = "recleaned"
    /\ UNCHANGED <<payload, fenced, raw, cleaned, response, vote>>
    /\ UNCHANGED <<trVars, appVars>>

Query ==
    /\ spc = "start"
    /\ response' = query_openai(raw)
    /\ spc' = "queried"
    /\ UNCHANGED <<payload, fenced, raw, cleaned, recleaned, vote>>
    /\ UNCHANGED <<trVars, appVars>>

CastVote ==
    /\ spc = "queried"
    /\ vote' = recorded_vote(response)
    /\ spc' = "voted"
    /\ UNCHANGED <<payload, fenced, raw, cleaned, recleaned, response>>
    /\ UNCHANGED <<trVars, appVars>>

SanNext == Clean \/ CleanAgain \/ Query \/ CastVote

---------------------------------------------------------------------------
(* translations.py: the Translator *)

\* A JSON value of a locale file: a string, or an object of such values.
Leaf(s) == [isdict |-> FALSE, str |-> s, dict |-> <<>>]
Dict(d) == [isdict |-> TRUE, str |-> "", dict |-> d]

\* A file of the locales directory, or its absence.
NoFile == [exists |-> FALSE, table |-> <<>>]
File(t) == [exists |-> TRUE, table |-> t]

DefaultLanguage == "en"
FileLanguages == {"en", "it"}
Languages == {"en", "it", "fr"}
TopKeys == {"agent", "voting"}
SubKeys == {"yes", "no"}

RECURSIVE KeyStr(_)
\* The key as the caller wrote it: the inverse of key.split(".").
KeyStr(keys) ==
    IF Len(keys) = 1 THEN keys[1] ELSE keys[1] \o "." \o KeyStr(Tail(keys))

\* The text a locale file of lang holds at a path.
TextOf(lang, keys) == lang \o ":" \o KeyStr(keys)

\* The table of lang with string entries strs and object entries DOMAIN dicts.
TableOf(lang, strs, dicts) ==
    [k \in strs \cup DOMAIN dicts |->
        IF k \in strs
        THEN Leaf(TextOf(lang, <<k>>))
        ELSE Dict([j \in dicts[k] |-> Leaf(TextOf(lang, <<k, j>>))])]

Tables(lang) ==
    { TableOf(lang, strs, dicts) :
        strs \in SUBSET TopKeys,
        dicts \in UNION { [D -> SUBSET SubKeys] : D \in SUBSET TopKeys } }

Keys ==
    { <<"agent">>, <<"voting">>, <<"voting", "yes">>, <<"voting", "no">>,
      <<"agent", "yes">>, <<"missing">>, <<"voting", "yes", "x">> }

FileOf(lang) == IF lang \in DOMAIN locales THEN locales[lang] ELSE NoFile

\* Translator._load_translations: the table, or the FileNotFoundError of the
\* second open.
load_raises(lang) == ~FileOf(lang).exists /\ ~FileOf(DefaultLanguage).exists

load_translations(lang) ==
    IF FileOf(lang).exists
    THEN FileOf(lang).table
    ELSE FileOf(DefaultLanguage).table

RECURSIVE get_loop_none_on_miss(_, _, _)
get_loop_none_on_miss(value, keys, key) ==
    IF keys = <<>> THEN value
    ELSE LET v == IF Head(keys) \in DOMAIN value.dict
                  THEN value.dict[Head(keys)]
                  ELSE Leaf("")
         IN  IF ~v.isdict THEN v ELSE get_loop_none_on_miss(v, Tail(keys), key)

RECURSIVE get_loop(_, _, _)
\* The loop of Translator.get over the segments still to look up.
get_loop(value, keys, key) ==
    IF keys = <<>> THEN value
    ELSE LET v == IF Head(keys) \in DOMAIN value.dict
                  THEN value.dict[Head(keys)]
                  ELSE Leaf(key)
         IN  IF ~v.isdict THEN v ELSE get_loop(v, Tail(keys), key)

\* Translator.get(key) without format arguments; keys is key.split(".").
get(table, keys) == get_loop(Dict(table), keys, KeyStr(keys))

TrIdle ==
    /\ locales = <<>> /\ tr_language = "" /\ translations = <<>>
    /\ tr_key = <<>> /\ tr_value = Leaf("") /\ tpc = "off"

TrInit ==
    /\ locales \in [FileLanguages -> {NoFile} \cup { File(t) : t \in Tables("en") \cup Tables("it") }]
    /\ \A l \in FileLanguages : locales[l].exists => locales[l].table \in Tables(l)
    /\ tr_language = "" /\ translations = <<>>
    /\ tr_key = <<>> /\ tr_value = Leaf("") /\ tpc = "new"

\* Translator(language), when both opens fail.
NewRaises(lang) ==
    /\ tpc = "new"
    /\ load_raises(lang)
    /\ tr_language' = lang
    /\ tpc' = "raised"
    /\ UNCHANGED <<locales, translations, tr_key, tr_value>>
    /\ UNCHANGED <<sanVars, appVars>>

\* Translator(language)
New(lang) ==
    /\ tpc = "new"
    /\ ~load_raises(lang)
    /\ tr_language' = lang
    /\ translations' = load_translations(lang)
    /\ tpc' = "ready"
    /\ UNCHANGED <<locales, tr_key, tr_value>>
    /\ UNCHANGED <<sanVars, appVars>>

\* t.get(key)
Get(keys) ==
    /\ tpc \in {"ready", "looked_up"}
    /\ tr_key' = keys
    /\ tr_value' = get(translations, keys)
    /\ tpc' = "looked_up"
    /\ UNCHANGED <<locales, tr_language, translations>>
    /\ UNCHANGED <<sanVars, appVars>>

---------------------------------------------------------------------------
(* The pipeline: simulation.py as driven by app.py and by its own main *)

\* A session-state field (or local) that holds None or a value.
None == [some |-> FALSE, val |-> <<>>]
Some(v) == [some |-> TRUE, val |-> v]

\* An agent field the code has not assigned yet.
Absent == <<"<absent>">>

\* No credential: os.getenv found none.
NoKey == ""

get_current_parliament_distribution ==
    << [name |-> "Party A", seats |-> 4], [name |-> "Party B", seats |-> 3],
       [name |-> "Party C", seats |-> 2], [name |-> "Party D", seats |-> 1] >>

RECURSIVE SumSeats(_)
\* sum(p["seats"] for p in parties)
SumSeats(ps) == IF ps = <<>> THEN 0 ELSE Head(ps).seats + SumSeats(Tail(ps))

\* The seat total simulation.main insists on.
ExpectedSeats == 10

WithPersona(p) == [name |-> p.name, seats |-> p.seats, persona |-> "persona"]

\* What json.loads may give in Stage A: the distribution with personas, or an
\* array the service made up (two parties of one seat each).
PartyReplies ==
    { [i \in DOMAIN get_current_parliament_distribution |->
          WithPersona(get_current_parliament_distribution[i])],
      << [name |-> "Party A", seats |-> 1, persona |-> "persona"],
         [name |-> "Party B", seats |-> 1, persona |-> "persona"] >> }

\* What json.loads may give in Stage B: any array of at most MaxAgents agents,
\* given here by the party_name of each.
AgentNames == {"Party A", "Party B"}
AgentReplies == UNION { [1..n -> AgentNames] : n \in 0..MaxAgents }

NewAgent(name) ==
    [party_name |-> name, agent_persona |-> "persona", opinion |-> Absent, vote |-> Absent]

\* The contents the service may send in Stage C, Stage D and the voting stage.
OpinionReplies == { <<"a">>, <<"b">>, <<Backtick, "b", Backtick>> }
QuestionReplies == { <<"q", "?">> }
VoteReplies ==
    { Yes, No, <<"m", "a", "y", "b", "e">>, <<Backtick>> \o Yes \o <<Backtick>>,
      Yes \o <<"\n">>, <<"Y", "E", "S", " ">>, Empty }

StagePcs == {"stageA", "stageB", "stageC", "stageD", "vote"}

\* set_api_key(api_key): the value openai.api_key gets.
set_api_key(key) == key

prepend_opinion(ops, resp) == <<resp>> \o ops

\* opinions.append(response)
append_opinion(ops, resp) == Append(ops, resp)

\* [a["vote"] for a in agents]
votes_of(as) == [i \in DOMAIN as |-> as[i].vote]

RECURSIVE count(_, _)
\* list.count(x)
count(xs, x) ==
    IF xs = <<>> THEN 0
    ELSE (IF Head(xs) = x THEN 1 ELSE 0) + count(Tail(xs), x)

final_result_tie_passes(yes, no) == IF yes >= no THEN "PASSED" ELSE "FAILED"

\* t.get("voting.passed") if yes_count > no_count else t.get("voting.failed")
final_result(yes, no) == IF yes > no THEN "PASSED" ELSE "FAILED"

\* First agent agent_vote has not reached yet.
NextVoter(as) ==
    CHOOSE i \in DOMAIN as : as[i].vote = Absent /\ \A j \in 1..(i - 1) : as[j].vote # Absent

AppIdle ==
    /\ entry = "off" /\ api_key = NoKey /\ api_key_set = FALSE /\ language = "en"
    /\ has_issue = FALSE /\ simulation_complete = FALSE
    /\ parties = None /\ agents = None /\ question = None /\ votes = None
    /\ opinions = <<>> /\ joined_opinions = <<>> /\ pc = "off" /\ rendered = {}
    /\ failed = FALSE /\ yes_count = 0 /\ no_count = 0 /\ result = ""

\* initialize_session_state on the first script run (app), or the import of
\* simulation.py (cli); the environment holds a key or none.
AppInit ==
    /\ entry \in {"app", "cli"}
    /\ api_key \in {NoKey, "k"}
    /\ api_key_set = (entry = "app" /\ api_key # NoKey)
    /\ language = "en"
    /\ has_issue = FALSE /\ simulation_complete = FALSE
    /\ parties = None /\ agents = None /\ question = None /\ votes = None
    /\ opinions = <<>> /\ joined_opinions = <<>>
    /\ pc = IF entry = "app" THEN "idle" ELSE "cli_start"
    /\ rendered = {} /\ failed = FALSE
    /\ yes_count = 0 /\ no_count = 0 /\ result = ""

\* What the results section puts on screen: st.progress(yes_count / len(votes))
\* raises ZeroDivisionError, after the result is written, when there is no vote.
ShownResults(vs) == IF vs = <<>> THEN {"results", "error"} ELSE {"results"}

\* The end of a run: the votes are stored (app) or tallied (cli) and shown.
Finish(as) ==
    /\ votes' = Some(votes_of(as))
    /\ simulation_complete' = (entry = "app")
    /\ yes_count' = count(votes_of(as), Yes)
    /\ no_count' = count(votes_of(as), No)
    /\ result' = IF entry = "app"
                 THEN final_result(count(votes_of(as), Yes), count(votes_of(as), No))
                 ELSE ""
    /\ rendered' = rendered \cup (IF entry = "app" THEN ShownResults(as)
                                  ELSE {"question", "votes"})
    /\ pc' = IF entry = "app" THEN "idle" ELSE "exit"

\* What the key field and the issue field may hold when a script run starts.
KeyInputs == {NoKey, "k"}
IssueInputs == {"", "i"}

\* main of app.py up to the form: the language selector and the credential gate.
\* A change of language reruns the script with the new language. The key field
\* is on screen only while no key is set.
Gate(selected_lang, key_input) ==
    /\ entry = "app" /\ pc = "idle"
    /\ language' = selected_lang
    /\ IF api_key_set
       THEN key_input = NoKey /\ UNCHANGED <<api_key, api_key_set>>
       ELSE /\ key_input # NoKey
            /\ api_key' = set_api_key(key_input)
            /\ api_key_set' = TRUE

\* The form was shown by the previous run and is submitted with an issue.
Submitted(selected_lang, submitted, issue) ==
    submitted /\ issue # "" /\ api_key_set /\ selected_lang = language

\* A script run stopped at the gate: no key set, none typed.
RunGateBlocked(selected_lang) ==
    /\ entry = "app" /\ pc = "idle"
    /\ ~api_key_set
    /\ language' = selected_lang
    /\ rendered' = {"warning"}
    /\ yes_count' = 0 /\ no_count' = 0 /\ result' = ""
    /\ UNCHANGED <<entry, api_key, api_key_set, has_issue, simulation_complete, parties,
                   agents, question, votes, opinions, joined_opinions, pc, failed>>
    /\ UNCHANGED <<sanVars, trVars>>

\* A script run that reaches run_simulation: the first call is in flight.
RunStart(selected_lang, key_input, submitted, issue) ==
    /\ Gate(selected_lang, key_input)
    /\ LET sub == Submitted(selected_lang, submitted, issue)
       IN  /\ (has_issue \/ sub) /\ (sub \/ ~simulation_complete)
           /\ has_issue' = TRUE
           /\ simulation_complete' = FALSE
           /\ failed' = IF sub THEN FALSE ELSE failed
    /\ pc' = "stageA"
    /\ rendered' = {}
    /\ opinions' = <<>> /\ joined_opinions' = <<>>
    /\ yes_count' = 0 /\ no_count' = 0 /\ result' = ""
    /\ UNCHANGED <<entry, parties, agents, question, votes>>
    /\ UNCHANGED <<sanVars, trVars>>

\* A script run that shows the stored results of a complete simulation.
RunShow(selected_lang, key_input, submitted, issue) ==
    /\ Gate(selected_lang, key_input)
    /\ ~Submitted(selected_lang, submitted, issue)
    /\ simulation_complete
    /\ rendered' = ShownResults(votes.val)
    /\ yes_count' = count(votes.val, Yes)
    /\ no_count' = count(votes.val, No)
    /\ result' = final_result(count(votes.val, Yes), count(votes.val, No))
    /\ UNCHANGED <<entry, has_issue, simulation_complete, parties, agents, question,
                   votes, opinions, joined_opinions, pc, failed>>
    /\ UNCHANGED <<sanVars, trVars>>

\* A script run that shows the form only: no issue yet.
RunForm(selected_lang, key_input, submitted, issue) ==
    /\ Gate(selected_lang, key_input)
    /\ ~Submitted(selected_lang, submitted, issue)
    /\ ~has_issue
    /\ rendered' = {}
    /\ yes_count' = 0 /\ no_count' = 0 /\ result' = ""
    /\ UNCHANGED <<entry, has_issue, simulation_complete, parties, agents, question,
                   votes, opinions, joined_opinions, pc, failed>>
    /\ UNCHANGED <<sanVars, trVars>>

\* main of simulation.py up to generate_party_personas.
CliStart ==
    /\ entry = "cli" /\ pc = "cli_start"
    /\ has_issue' = TRUE
    /\ pc' = IF SumSeats(get_current_parliament_distribution) # ExpectedSeats
             THEN "exit" ELSE "stageA"
    /\ UNCHANGED <<entry, api_key, api_key_set, language, simulation_complete, parties,
                   agents, question, votes, opinions, joined_opinions, rendered, failed,
                   yes_count, no_count, result>>
    /\ UNCHANGED <<sanVars, trVars>>

\* The call in flight raises (transport, service, no credential) or its
\* response does not parse: the exception ends the script run or the process.
CallFails ==
    /\ pc \in StagePcs
    /\ failed' = TRUE
    /\ pc' = IF entry = "app" THEN "idle" ELSE "exit"
    /\ rendered' = rendered \cup {"error"}
    /\ UNCHANGED <<entry, api_key, api_key_set, language, has_issue, simulation_complete,
                   parties, agents, question, votes, opinions, joined_opinions,
                   yes_count, no_count, result>>
    /\ UNCHANGED <<sanVars, trVars>>

\* generate_party_personas returns; app.py stores the parties and draws the chart.
generate_party_personas(reply) ==
    /\ pc = "stageA" /\ api_key # NoKey
    /\ parties' = Some(reply)
    /\ rendered' = IF entry = "app" THEN rendered \cup {"party_chart"} ELSE rendered
    /\ pc' = "stageB"
    /\ UNCHANGED <<entry, api_key, api_key_set, language, has_issue, simulation_complete,
                   agents, question, votes, opinions, joined_opinions, failed,
                   yes_count, no_count, result>>
    /\ UNCHANGED <<sanVars, trVars>>

\* get_opinions has returned: simulation.main prints, form_question builds its prompt.
enter_form_question(ops) ==
    /\ joined_opinions' = Join(Newline, ops)
    /\ rendered' = IF entry = "cli" THEN rendered \cup {"parties", "opinions"} ELSE rendered
    /\ pc' = "stageD"

\* generate_agents_personas returns; get_opinions starts.
generate_agents_personas(reply) ==
    /\ pc = "stageB" /\ api_key # NoKey
    /\ agents' = Some([i \in DOMAIN reply |-> NewAgent(reply[i])])
    /\ opinions' = <<>>
    /\ IF reply = <<>>
       THEN enter_form_question(<<>>)
       ELSE pc' = "stageC" /\ UNCHANGED <<joined_opinions, rendered>>
    /\ UNCHANGED <<entry, api_key, api_key_set, language, has_issue, simulation_complete,
                   parties, question, votes, failed, yes_count, no_count, result>>
    /\ UNCHANGED <<sanVars, trVars>>

\* One turn of the loop of get_opinions.
get_opinions(reply) ==
    /\ pc = "stageC" /\ api_key # NoKey
    /\ LET i == Len(opinions) + 1
           resp == query_openai(reply)
       IN  /\ agents' = Some([agents.val EXCEPT ![i].opinion = resp])
           /\ opinions' = append_opinion(opinions, resp)
           /\ IF i = Len(agents.val)
              THEN enter_form_question(opinions')
              ELSE pc' = "stageC" /\ UNCHANGED <<joined_opinions, rendered>>
    /\ UNCHANGED <<entry, api_key, api_key_set, language, has_issue, simulation_complete,
                   parties, question, votes, failed, yes_count, no_count, result>>
    /\ UNCHANGED <<sanVars, trVars>>

\* form_question returns; agent_vote builds its prompt and starts.
form_question(reply) ==
    /\ pc = "stageD" /\ api_key # NoKey
    /\ question' = Some(query_openai(reply))
    /\ joined_opinions' = Join(Newline, opinions)
    /\ IF agents.val = <<>>
       THEN Finish(agents.val)
       ELSE /\ pc' = "vote"
            /\ rendered' = IF entry = "cli" THEN rendered \cup {"question"} ELSE rendered
            /\ UNCHANGED <<votes, simulation_complete, yes_count, no_count, result>>
    /\ UNCHANGED <<entry, api_key, api_key_set, language, has_issue, parties, agents,
                   opinions, failed>>
    /\ UNCHANGED <<sanVars, trVars>>

\* One turn of the loop of agent_vote; after the last one the run ends.
agent_vote(reply) ==
    /\ pc = "vote" /\ api_key # NoKey
    /\ LET i == NextVoter(agents.val)
           as == [agents.val EXCEPT ![i].vote = recorded_vote(query_openai(reply))]
       IN  /\ agents' = Some(as)
           /\ IF i = Len(as)
              THEN Finish(as)
              ELSE UNCHANGED <<pc, rendered, votes, simulation_complete, yes_count,
                               no_count, result>>
    /\ UNCHANGED <<entry, api_key, api_key_set, language, has_issue, parties, question,
                   opinions, joined_opinions, failed>>
    /\ UNCHANGED <<sanVars, trVars>>

Next ==
    \/ \E l \in FileLanguages : RunGateBlocked(l)
    \/ \E l \in FileLanguages, k \in KeyInputs, sub \in BOOLEAN, issue \in IssueInputs :
         RunStart(l, k, sub, issue)
    \/ \E l \in FileLanguages, k \in KeyInputs, sub \in BOOLEAN, issue \in IssueInputs :
         RunShow(l, k, sub, issue)
    \/ \E l \in FileLanguages, k \in KeyInputs, sub \in BOOLEAN, issue \in IssueInputs :
         RunForm(l, k, sub, issue)
    \/ CliStart
    \/ CallFails
    \/ \E reply \in PartyReplies : generate_party_personas(reply)
    \/ \E reply \in AgentReplies : generate_agents_personas(reply)
    \/ \E reply \in OpinionReplies : get_opinions(reply)
    \/ \E reply \in QuestionReplies : form_question(reply)
    \/ \E reply \in VoteReplies : agent_vote(reply)

---------------------------------------------------------------------------
(* Specifications *)

TrNext ==
    \/ \E lang \in Languages : NewRaises(lang)
    \/ \E lang \in Languages : New(lang)
    \/ \E keys \in Keys : Get(keys)

\* The pipeline under its two entry points.
Init == AppInit /\ SanIdle /\ TrIdle
Spec == Init /\ [][Next]_vars

\* The sanitizer and the vote, on every text within the bound.
InitSan == SanInit /\ TrIdle /\ AppIdle
SpecSan == InitSan /\ [][SanNext]_vars

\* The Translator, on every locales directory within the key sets.
InitTr == TrInit /\ SanIdle /\ AppIdle
SpecTr == InitTr /\ [][TrNext]_vars

---------------------------------------------------------------------------
(* Properties of the sanitizer and the vote, under SpecSan *)

\* C1: the vote agent_vote records for a response of the generation call is
\* "Yes" when the trimmed response is exactly "Yes" and "No" for every other
\* response; it is never anything but "Yes" or "No".
C1_VoteFallback ==
    spc = "voted" =>
        /\ vote = (IF Strip(response, Whitespace) = Yes THEN Yes ELSE No)
        /\ vote \in {Yes, No}

\* C1 witness: the service sent "YES " and the recorded vote is "No".
C1_Witness ==
    spc = "voted" /\ raw = <<"Y", "E", "S", " ">> /\ response # Yes /\ vote = No

\* C2: sanitizing a sanitized text changes nothing.
C2_Idempotent == spc = "recleaned" => recleaned = cleaned

\* A payload with no whitespace or backtick at either end that does not start
\* with the marker.
PlainPayload(p) ==
    /\ p = Strip(p, Whitespace \cup {Backtick})
    /\ ~StartsWith(p, JsonMarker)

\* C3: a plain payload wrapped in a json code fence is sanitized to exactly
\* the payload, with nothing left before or after it.
C3_FenceRemoved ==
    (spc = "cleaned" /\ fenced /\ PlainPayload(payload)) => cleaned = payload

---------------------------------------------------------------------------
(* Properties of the Translator, under SpecTr *)

RECURSIVE HasPath(_, _)
\* Every segment of keys is found, one object inside the other.
HasPath(node, keys) ==
    \/ keys = <<>>
    \/ /\ node.isdict
       /\ Head(keys) \in DOMAIN node.dict
       /\ HasPath(node.dict[Head(keys)], Tail(keys))

RECURSIVE ValueAt(_, _)
ValueAt(node, keys) ==
    IF keys = <<>> THEN node ELSE ValueAt(node.dict[Head(keys)], Tail(keys))

RECURSIVE MissSeg(_, _)
\* Some segment of keys is absent from the object reached by the ones before it.
MissSeg(node, keys) ==
    /\ keys # <<>>
    /\ node.isdict
    /\ \/ Head(keys) \notin DOMAIN node.dict
       \/ MissSeg(node.dict[Head(keys)], Tail(keys))

DefaultTable == Dict(FileOf(DefaultLanguage).table)

---------------------------------------------------------------------------
(* Properties of the pipeline, under Spec *)

RECURSIVE Repeat(_, _)
Repeat(x, n) == IF n = 0 THEN <<>> ELSE <<x>> \o Repeat(x, n - 1)

RECURSIVE SeatNames(_)
\* The party names seat by seat, party by party in list order.
SeatNames(ps) ==
    IF ps = <<>> THEN <<>> ELSE Repeat(Head(ps).name, Head(ps).seats) \o SeatNames(Tail(ps))

\* C4: the agent list Stage B returned holds sum(seats) agents, each of an
\* existing party, grouped by party in party-list order with group sizes equal
\* to the seat counts.
C4_SeatToAgent ==
    pc \in {"stageC", "stageD", "vote"} =>
        /\ Len(agents.val) = SumSeats(parties.val)
        /\ \A i \in DOMAIN agents.val :
              \E j \in DOMAIN parties.val : agents.val[i].party_name = parties.val[j].name
        /\ [i \in DOMAIN agents.val |-> agents.val[i].party_name] = SeatNames(parties.val)

RECURSIVE OpinionsInAgentOrder(_, _)
\* The opinions stored on the first n agents, one per line.
OpinionsInAgentOrder(as, n) ==
    IF n = 0 THEN <<>>
    ELSE IF n = 1 THEN as[1].opinion
    ELSE OpinionsInAgentOrder(as, n - 1) \o Newline \o as[n].opinion

\* C5: once Stage C is over the opinions list has one entry per agent, its
\* i-th entry is the opinion stored on the i-th agent, and the text joined for
\* Stage D and for the voting stage is those opinions in agent order.
C5_OrderPreserved ==
    pc \in {"stageD", "vote"} =>
        /\ Len(opinions) = Len(agents.val)
        /\ \A i \in DOMAIN opinions : opinions[i] = agents.val[i].opinion
        /\ joined_opinions = OpinionsInAgentOrder(agents.val, Len(agents.val))

\* C5 witness: two agents of different opinions, joined in their order.
C5_Witness ==
    /\ pc = "vote" /\ Len(agents.val) = 2
    /\ agents.val[1].opinion = <<"b">> /\ agents.val[2].opinion = <<"a">>
    /\ joined_opinions = <<"b", "\n", "a">>

NumberOf(xs, x) == Cardinality({ i \in DOMAIN xs : xs[i] = x })

\* C6: whenever a tally is shown, yes_count and no_count are the numbers of
\* "Yes" and of "No" votes, they add up to the number of agents, and the
\* result app.py shows is PASSED exactly when yes_count > no_count and FAILED
\* otherwise.
C6_TallyCorrect ==
    ("results" \in rendered \/ "votes" \in rendered) =>
        /\ votes.val = [i \in DOMAIN agents.val |-> agents.val[i].vote]
        /\ yes_count = NumberOf(votes.val, Yes)
        /\ no_count = NumberOf(votes.val, No)
        /\ yes_count + no_count = Len(agents.val)
        /\ entry = "app" => /\ result = "PASSED" <=> yes_count > no_count
                            /\ result = "FAILED" <=> yes_count <= no_count

\* C6 witness: a tie is shown as FAILED.
C6_Witness ==
    /\ "results" \in rendered /\ votes.val = <<Yes, No>>
    /\ yes_count = 1 /\ no_count = 1 /\ result = "FAILED"

\* C8: after a call of a run has failed nothing of that run is stored in the
\* session state or on screen (votes are stored by complete runs only, so with
\* no votes stored nothing stored comes from an earlier run).
C8_NoPartialResults ==
    (entry = "app" /\ failed /\ ~votes.some) =>
        /\ ~simulation_complete
        /\ ~parties.some /\ ~agents.some /\ ~question.some
        /\ "party_chart" \notin rendered

\* C9: once a call has failed no generation call is in flight again until the
\* user submits an issue again.
C9_NeverRetried == ~(failed /\ pc \in StagePcs)

\* C10: no stage runs and no generation call is in flight while no credential
\* is set.
C10_CredentialGate == pc \in StagePcs => api_key # NoKey

===========================================================================
